---- MODULE Spec2Model ----
(***************************************************************************)
(* A model of package ssdeep (src/ssdeep.go): the context-triggered        *)
(* piecewise hash computed by FuzzyReader and its wrappers FuzzyBytes and  *)
(* FuzzyFile.                                                              *)
(*                                                                         *)
(* Machine integers keep their width.  TLC's integers are 32-bit signed,   *)
(* so a uint32 is the pair <<lo, hi>> of its 16-bit halves and an int64 is *)
(* the tuple <<w0, w1, w2, w3>> of its 16-bit words, least significant     *)
(* first, in two's complement.  All arithmetic on them wraps as Go's does. *)
(***************************************************************************)
EXTENDS Integers, Sequences, FiniteSets

\* ------------------------------------------------------------------------
\* Program constants (src/ssdeep.go:12-20)
\* ------------------------------------------------------------------------
\* the radix of the 16-bit words
W == 2 ^ 16

rollingWindow == 7
blockMin == 3
spamSumLength == 64
minFileSize == 4096
\* hashPrime = 0x01000193, hashInit = 0x28021967, as <<lo, hi>>
hashPrime == <<403, 256>>
hashInit == <<6503, 10242>>
b64 ==
  << "A","B","C","D","E","F","G","H","I","J","K","L","M","N","O","P",
     "Q","R","S","T","U","V","W","X","Y","Z","a","b","c","d","e","f",
     "g","h","i","j","k","l","m","n","o","p","q","r","s","t","u","v",
     "w","x","y","z","0","1","2","3","4","5","6","7","8","9","+","/" >>
ErrSmallInput == "Too small data size"
ErrSmallBlock == "Too small block size"

\* ------------------------------------------------------------------------
\* uint32 arithmetic
\* ------------------------------------------------------------------------
\* uint32(n) for an n TLC can hold (0 <= n < 2^31)
U32(n) == <<n % W, (n \div W) % W>>

U32Add(a, b) ==
  LET s == a[1] + b[1] IN <<s % W, (a[2] + b[2] + (s \div W)) % W>>

U32Sub(a, b) ==
  LET d == a[1] - b[1] IN <<d % W, (a[2] - b[2] + (d \div W)) % W>>

\* a << s for 0 <= s <= 15
U32Shl(a, s) ==
  LET p == a[1] * (2 ^ s) IN <<p % W, (a[2] * (2 ^ s) + (p \div W)) % W>>

\* a * m for a byte m
U32MulByte(a, m) ==
  LET p == a[1] * m IN <<p % W, (a[2] * m + (p \div W)) % W>>

\* a * b, by the four bytes of b
U32Mul(a, b) ==
  LET p0 == U32MulByte(a, b[1] % 256)
      p1 == U32Shl(U32MulByte(a, b[1] \div 256), 8)
      q2 == U32MulByte(a, b[2] % 256)
      q3 == U32Shl(U32MulByte(a, b[2] \div 256), 8)
  IN  U32Add(U32Add(p0, p1), <<0, U32Add(q2, q3)[1]>>)

RECURSIVE XorBits(_, _)
XorBits(x, y) ==
  IF x = 0 THEN y
  ELSE IF y = 0 THEN x
  ELSE ((x + y) % 2) + 2 * XorBits(x \div 2, y \div 2)

U32Xor(a, b) == <<XorBits(a[1], b[1]), XorBits(a[2], b[2])>>

\* ------------------------------------------------------------------------
\* int64 arithmetic
\* ------------------------------------------------------------------------
I64Zero == <<0, 0, 0, 0>>

I64Add(a, b) ==
  LET s1 == a[1] + b[1]
      s2 == a[2] + b[2] + (s1 \div W)
      s3 == a[3] + b[3] + (s2 \div W)
      s4 == a[4] + b[4] + (s3 \div W)
  IN  <<s1 % W, s2 % W, s3 % W, s4 % W>>

I64Sub(a, b) ==
  LET d1 == a[1] - b[1]
      d2 == a[2] - b[2] + (d1 \div W)
      d3 == a[3] - b[3] + (d2 \div W)
      d4 == a[4] - b[4] + (d3 \div W)
  IN  <<d1 % W, d2 % W, d3 % W, d4 % W>>

I64Negate(a) == I64Sub(I64Zero, a)

\* int64(n) for an n TLC can hold
I64(n) ==
  IF n >= 0 THEN <<n % W, (n \div W) % W, 0, 0>>
  ELSE I64Negate(<<(-n) % W, ((-n) \div W) % W, 0, 0>>)

\* int64(u) for a uint32 u
I64FromU32(u) == <<u[1], u[2], 0, 0>>

I64IsNeg(a) == a[4] >= 32768

\* a < b on the 64-bit patterns read as unsigned
U64Less(a, b) ==
  \/ a[4] < b[4]
  \/ a[4] = b[4] /\ a[3] < b[3]
  \/ a[4] = b[4] /\ a[3] = b[3] /\ a[2] < b[2]
  \/ a[4] = b[4] /\ a[3] = b[3] /\ a[2] = b[2] /\ a[1] < b[1]

\* a < b, signed
I64Less(a, b) ==
  IF I64IsNeg(a) # I64IsNeg(b) THEN I64IsNeg(a) ELSE U64Less(a, b)

\* a * m (wrapping) for 0 <= m <= 2^14
I64MulSmall(a, m) ==
  LET p1 == a[1] * m
      p2 == a[2] * m + (p1 \div W)
      p3 == a[3] * m + (p2 \div W)
      p4 == a[4] * m + (p3 \div W)
  IN  <<p1 % W, p2 % W, p3 % W, p4 % W>>

\* the 64-bit pattern shifted right by one, zero filled
U64Shr1(a) ==
  << (a[1] \div 2) + (a[2] % 2) * 32768,
     (a[2] \div 2) + (a[3] % 2) * 32768,
     (a[3] \div 2) + (a[4] % 2) * 32768,
     a[4] \div 2 >>

\* a / 2, Go's signed division (truncated toward zero)
I64Div2(a) ==
  IF I64IsNeg(a) THEN I64Negate(U64Shr1(I64Negate(a))) ELSE U64Shr1(a)

\* a % m for a >= 0 and 0 < m <= 2^15 (m a plain integer), by Horner's rule
\* on the words of a
I64ModSmall(a, m) ==
  ((((((a[4] % m) * W + a[3]) % m) * W + a[2]) % m) * W + a[1]) % m

\* a % m for a >= 0 and m > 0 of any size, by shift and subtract
RECURSIVE I64ModBig(_, _)
I64ModBig(a, m) ==
  IF U64Less(a, m) THEN a
  ELSE LET m2 == I64MulSmall(m, 2)
       IN  IF m[4] < 16384 /\ ~U64Less(a, m2)
           THEN I64ModBig(I64ModBig(a, m2), m)
           ELSE I64ModBig(I64Sub(a, m), m)

\* a % m, Go's remainder, for a >= 0 and m > 0 (m = 0 panics in Go and is
\* an evaluation error here)
I64Mod(a, m) ==
  IF m[4] = 0 /\ m[3] = 0 /\ m[2] = 0 /\ m[1] <= 32768
  THEN I64(I64ModSmall(a, m[1]))
  ELSE I64ModBig(a, m)

\* a divided by 10 on the unsigned pattern: <<quotient, remainder>>
U64DivMod10(a) ==
  LET n4 == a[4]
      n3 == (n4 % 10) * W + a[3]
      n2 == (n3 % 10) * W + a[2]
      n1 == (n2 % 10) * W + a[1]
  IN  << <<n1 \div 10, n2 \div 10, n3 \div 10, n4 \div 10>>, n1 % 10 >>

RECURSIVE U64Decimal(_)
U64Decimal(a) ==
  LET qr == U64DivMod10(a)
      d  == <<"0","1","2","3","4","5","6","7","8","9">>[qr[2] + 1]
  IN  IF qr[1] = I64Zero THEN <<d>> ELSE Append(U64Decimal(qr[1]), d)

\* fmt's %d of an int64, as the sequence of its characters
I64Decimal(a) ==
  IF I64IsNeg(a) THEN <<"-">> \o U64Decimal(I64Negate(a)) ELSE U64Decimal(a)

\* ------------------------------------------------------------------------
\* rollingState and ssdeepState (src/ssdeep.go:26-60)
\* ------------------------------------------------------------------------
\* make([]byte, rollingWindow)
ZeroWindow == [i \in 1..rollingWindow |-> 0]

\* rollingState{} followed by the allocation of its window
FreshRollingState ==
  [window |-> ZeroWindow, h1 |-> U32(0), h2 |-> U32(0), h3 |-> U32(0), n |-> 0]

rollSum(rs) == U32Add(U32Add(rs.h1, rs.h2), rs.h3)

\* the zero value of ssdeepState, held before newSsdeepState() is called
ZeroState ==
  [rollingState |-> [window |-> <<>>, h1 |-> U32(0), h2 |-> U32(0),
                     h3 |-> U32(0), n |-> 0],
   blockSize |-> I64Zero, hashString1 |-> <<>>, hashString2 |-> <<>>,
   blockHash1 |-> U32(0), blockHash2 |-> U32(0)]

newSsdeepState ==
  [rollingState |-> FreshRollingState,
   blockSize |-> I64Zero, hashString1 |-> <<>>, hashString2 |-> <<>>,
   blockHash1 |-> hashInit, blockHash2 |-> hashInit]

\* newRollingState allocating a new window and keeping h1, h2, h3 and n
newRollingStateWindowOnly(s) == [s EXCEPT !.rollingState.window = ZeroWindow]

newRollingState(s) == [s EXCEPT !.rollingState = FreshRollingState]

\* sumHash with the multiplication and the xor in the other order (FNV-1a)
sumHashXorFirst(c, h) == U32Mul(U32Xor(h, U32(c)), hashPrime)

sumHash(c, h) == U32Xor(U32Mul(h, hashPrime), U32(c))

\* rollHash storing c in the window before it takes the slot's byte off h1
rollHashOverwriteFirst(rs, c) ==
  LET h2a == U32Sub(rs.h2, rs.h1)
      h2b == U32Add(h2a, U32Mul(U32(rollingWindow), U32(c)))
      w1  == [rs.window EXCEPT ![rs.n + 1] = c]
      h1a == U32Add(rs.h1, U32(c))
      h1b == U32Sub(h1a, U32(w1[rs.n + 1]))
      n1  == rs.n + 1
  IN  [window |-> w1,
       h1 |-> h1b,
       h2 |-> h2b,
       h3 |-> U32Xor(U32Shl(rs.h3, 5), U32(c)),
       n  |-> IF n1 = rollingWindow THEN 0 ELSE n1]

rollHash(rs, c) ==
  LET h2a == U32Sub(rs.h2, rs.h1)
      h2b == U32Add(h2a, U32Mul(U32(rollingWindow), U32(c)))
      h1a == U32Add(rs.h1, U32(c))
      h1b == U32Sub(h1a, U32(rs.window[rs.n + 1]))
      n1  == rs.n + 1
  IN  [window |-> [rs.window EXCEPT ![rs.n + 1] = c],
       h1 |-> h1b,
       h2 |-> h2b,
       h3 |-> U32Xor(U32Shl(rs.h3, 5), U32(c)),
       n  |-> IF n1 = rollingWindow THEN 0 ELSE n1]

\* string(b64[h % 64])
B64Char(h) == b64[(h[1] % 64) + 1]

\* the trigger taken at remainder 0 instead of blockSize - 1
TriggerAtZero(rh, bs) == I64Mod(rh, bs) = I64Zero

\* rh % blockSize == blockSize - 1
Trigger(rh, bs) == I64Mod(rh, bs) = I64Sub(bs, I64(1))

\* processByte resetting an accumulator on every trigger, its string at the
\* cap or not
processByteResetAtCap(s, b) ==
  LET bh1 == sumHash(b, s.blockHash1)
      bh2 == sumHash(b, s.blockHash2)
      rs  == rollHash(s.rollingState, b)
      rh  == I64FromU32(rollSum(rs))
      t1  == Trigger(rh, s.blockSize)
      t2  == t1 /\ Trigger(rh, I64MulSmall(s.blockSize, 2))
      a1  == t1 /\ Len(s.hashString1) < spamSumLength - 1
      a2  == t2 /\ Len(s.hashString2) < (spamSumLength \div 2) - 1
  IN  [rollingState |-> rs,
       blockSize   |-> s.blockSize,
       hashString1 |-> IF a1 THEN Append(s.hashString1, B64Char(bh1))
                       ELSE s.hashString1,
       hashString2 |-> IF a2 THEN Append(s.hashString2, B64Char(bh2))
                       ELSE s.hashString2,
       blockHash1  |-> IF t1 THEN hashInit ELSE bh1,
       blockHash2  |-> IF t2 THEN hashInit ELSE bh2]

\* processByte with the caps of the two strings exchanged
processByteCapsSwapped(s, b) ==
  LET bh1 == sumHash(b, s.blockHash1)
      bh2 == sumHash(b, s.blockHash2)
      rs  == rollHash(s.rollingState, b)
      rh  == I64FromU32(rollSum(rs))
      t1  == Trigger(rh, s.blockSize)
      a1  == t1 /\ Len(s.hashString1) < (spamSumLength \div 2) - 1
      a2  == /\ t1
             /\ Trigger(rh, I64MulSmall(s.blockSize, 2))
             /\ Len(s.hashString2) < spamSumLength - 1
  IN  [rollingState |-> rs,
       blockSize   |-> s.blockSize,
       hashString1 |-> IF a1 THEN Append(s.hashString1, B64Char(bh1))
                       ELSE s.hashString1,
       hashString2 |-> IF a2 THEN Append(s.hashString2, B64Char(bh2))
                       ELSE s.hashString2,
       blockHash1  |-> IF a1 THEN hashInit ELSE bh1,
       blockHash2  |-> IF a2 THEN hashInit ELSE bh2]

\* processByte with both length gates off by one (<= for <)
processByteLateCap(s, b) ==
  LET bh1 == sumHash(b, s.blockHash1)
      bh2 == sumHash(b, s.blockHash2)
      rs  == rollHash(s.rollingState, b)
      rh  == I64FromU32(rollSum(rs))
      t1  == Trigger(rh, s.blockSize)
      a1  == t1 /\ Len(s.hashString1) <= spamSumLength - 1
      a2  == /\ t1
             /\ Trigger(rh, I64MulSmall(s.blockSize, 2))
             /\ Len(s.hashString2) <= (spamSumLength \div 2) - 1
  IN  [rollingState |-> rs,
       blockSize   |-> s.blockSize,
       hashString1 |-> IF a1 THEN Append(s.hashString1, B64Char(bh1))
                       ELSE s.hashString1,
       hashString2 |-> IF a2 THEN Append(s.hashString2, B64Char(bh2))
                       ELSE s.hashString2,
       blockHash1  |-> IF a1 THEN hashInit ELSE bh1,
       blockHash2  |-> IF a2 THEN hashInit ELSE bh2]

processByte(s, b) ==
  LET bh1 == sumHash(b, s.blockHash1)
      bh2 == sumHash(b, s.blockHash2)
      rs  == rollHash(s.rollingState, b)
      rh  == I64FromU32(rollSum(rs))
      t1  == Trigger(rh, s.blockSize)
      a1  == t1 /\ Len(s.hashString1) < spamSumLength - 1
      a2  == /\ t1
             /\ Trigger(rh, I64MulSmall(s.blockSize, 2))
             /\ Len(s.hashString2) < (spamSumLength \div 2) - 1
  IN  [rollingState |-> rs,
       blockSize   |-> s.blockSize,
       hashString1 |-> IF a1 THEN Append(s.hashString1, B64Char(bh1))
                       ELSE s.hashString1,
       hashString2 |-> IF a2 THEN Append(s.hashString2, B64Char(bh2))
                       ELSE s.hashString2,
       blockHash1  |-> IF a1 THEN hashInit ELSE bh1,
       blockHash2  |-> IF a2 THEN hashInit ELSE bh2]

\* fmt.Sprintf("%d:%s:%s", blockSize, hashString1, hashString2)
Sprintf(bs, s1, s2) == I64Decimal(bs) \o <<":">> \o s1 \o <<":">> \o s2

\* ------------------------------------------------------------------------
\* The collaborator: a Reader (io.Seeker and io.Reader, src/ssdeep.go:113)
\* ------------------------------------------------------------------------
\* A source holds len bytes, the pattern pat repeated; pos is its read
\* position.  failAt is the offset at which Read fails with an error other
\* than io.EOF (-1: never); seekErr makes every Seek fail and leave the
\* position alone; statErr makes Stat fail (an *os.File only).
Source(kind, pat, len, pos, failAt, seekErr, statErr) ==
  [kind |-> kind, pat |-> pat, len |-> len, pos |-> pos,
   failAt |-> failAt, seekErr |-> seekErr, statErr |-> statErr]

ByteAt(f, i) == f.pat[(i % Len(f.pat)) + 1]

\* bufio.Reader.ReadByte on a reader wrapped around f: the next byte, or
\* the error the source reports in its place
ReadByte(f) ==
  IF f.pos = f.failAt THEN [b |-> 0, err |-> "EIO"]
  ELSE IF f.pos >= f.len THEN [b |-> 0, err |-> "EOF"]
  ELSE [b |-> ByteAt(f, f.pos), err |-> "nil"]

\* f.Seek(offset, io.SeekStart): <<the source after the call, its error>>
Seek(f, offset) ==
  IF f.seekErr THEN <<f, "ESPIPE">> ELSE <<[f EXCEPT !.pos = offset], "nil">>

\* ------------------------------------------------------------------------
\* State
\* ------------------------------------------------------------------------
\* Every variable is a function of the call (a run of FuzzyReader, FuzzyBytes
\* or FuzzyFile); calls share nothing.
VARIABLES
  api,              \* the exported function the caller invoked
  pc,               \* where the call is
  f,                \* FuzzyReader's f: the source and its read position
  size,             \* FuzzyReader's size
  blockSize,        \* getBlockSize's local blockSize
  state,            \* FuzzyReader's state, an ssdeepState
  ret,              \* the (string, error) the function last returned
  currentPosition,  \* FuzzyFile's currentPosition
  hist              \* history: what the call did to the source so far

vars == <<api, pc, f, size, blockSize, state, ret, currentPosition, hist>>

Runs == DOMAIN pc

Ret(result, err) == [result |-> result, err |-> err]

\* where FuzzyReader's return lands: in the caller of the package, or back
\* in FuzzyBytes/FuzzyFile
ReturnTo(r) == IF api[r] = "FuzzyReader" THEN "done" ELSE "returned"

\* the first error the source reported
FirstErr(r, err) == IF hist[r].ioErr = "nil" THEN err ELSE hist[r].ioErr

\* ------------------------------------------------------------------------
\* FuzzyReader (src/ssdeep.go:130-160)
\* ------------------------------------------------------------------------
\* the gate with <= for <
TooSmallInputOrEqual(sz) == ~I64Less(I64(minFileSize), sz)

\* size < minFileSize
TooSmallInput(sz) == I64Less(sz, I64(minFileSize))

\* if size < minFileSize { return "", ErrSmallInput }
FuzzyReaderSmallInput(r) ==
  /\ pc[r] = "FuzzyReader"
  /\ TooSmallInput(size[r])
  /\ ret' = [ret EXCEPT ![r] = Ret(<<>>, ErrSmallInput)]
  /\ pc' = [pc EXCEPT ![r] = ReturnTo(r)]
  /\ UNCHANGED <<api, f, size, blockSize, state, currentPosition, hist>>

\* state := newSsdeepState(); state.getBlockSize(size) is entered
FuzzyReaderStart(r) ==
  /\ pc[r] = "FuzzyReader"
  /\ ~TooSmallInput(size[r])
  /\ state' = [state EXCEPT ![r] = newSsdeepState]
  /\ blockSize' = [blockSize EXCEPT ![r] = I64(blockMin)]
  /\ pc' = [pc EXCEPT ![r] = "getBlockSize"]
  /\ UNCHANGED <<api, f, size, ret, currentPosition, hist>>

\* for blockSize*spamSumLength < n { blockSize = blockSize * 2 }
getBlockSizeLoop(r) ==
  /\ pc[r] = "getBlockSize"
  /\ I64Less(I64MulSmall(blockSize[r], spamSumLength), size[r])
  /\ blockSize' = [blockSize EXCEPT ![r] = I64MulSmall(blockSize[r], 2)]
  /\ UNCHANGED <<api, pc, f, size, state, ret, currentPosition, hist>>

\* state.blockSize = blockSize
getBlockSizeExit(r) ==
  /\ pc[r] = "getBlockSize"
  /\ ~I64Less(I64MulSmall(blockSize[r], spamSumLength), size[r])
  /\ state' = [state EXCEPT ![r].blockSize = blockSize[r]]
  /\ pc' = [pc EXCEPT ![r] = "seek"]
  /\ UNCHANGED <<api, f, size, blockSize, ret, currentPosition, hist>>

\* the start of a pass without the f.Seek(0, 0)
FuzzyReaderNoRewind(r) ==
  /\ pc[r] = "seek"
  /\ state' = [state EXCEPT ![r] = newRollingState(state[r])]
  /\ pc' = [pc EXCEPT ![r] = "process"]
  /\ UNCHANGED <<api, f, size, blockSize, ret, currentPosition, hist>>

\* f.Seek(0, 0); r := bufio.NewReader(f); process: state.newRollingState()
FuzzyReaderRewind(r) ==
  LET sk == Seek(f[r], 0) IN
  /\ pc[r] = "seek"
  /\ f' = [f EXCEPT ![r] = sk[1]]
  /\ state' = [state EXCEPT ![r] = newRollingState(state[r])]
  /\ hist' = [hist EXCEPT ![r].seeks = @ + 1,
                          ![r].ioErr = FirstErr(r, sk[2])]
  /\ pc' = [pc EXCEPT ![r] = "process"]
  /\ UNCHANGED <<api, size, blockSize, ret, currentPosition>>

\* process: b, err := r.ReadByte() with err == nil; state.processByte(b)
processRead(r) ==
  LET rd == ReadByte(f[r]) IN
  /\ pc[r] = "process"
  /\ rd.err = "nil"
  /\ state' = [state EXCEPT ![r] = processByte(state[r], rd.b)]
  /\ f' = [f EXCEPT ![r].pos = @ + 1]
  /\ hist' = [hist EXCEPT ![r].reads = @ + 1]
  /\ UNCHANGED <<api, pc, size, blockSize, ret, currentPosition>>

\* process: ReadByte returned an error (io.EOF or any other): the loop ends
processExit(r) ==
  LET rd == ReadByte(f[r]) IN
  /\ pc[r] = "process"
  /\ rd.err # "nil"
  /\ hist' = [hist EXCEPT
       ![r].reads = @ + 1,
       ![r].ioErr = IF rd.err = "EOF" THEN @ ELSE FirstErr(r, rd.err),
       ![r].passes = Append(@, [blockSize |-> state[r].blockSize,
                                len1 |-> Len(state[r].hashString1)])]
  /\ pc' = [pc EXCEPT ![r] = "check"]
  /\ UNCHANGED <<api, f, size, blockSize, state, ret, currentPosition>>

\* the block size checked against 1 instead of blockMin
TooSmallBlockBelowOne(s) == I64Less(s.blockSize, I64(1))

\* state.blockSize < blockMin
TooSmallBlock(s) == I64Less(s.blockSize, I64(blockMin))

\* if state.blockSize < blockMin { return "", ErrSmallBlock }
FuzzyReaderSmallBlock(r) ==
  /\ pc[r] = "check"
  /\ TooSmallBlock(state[r])
  /\ ret' = [ret EXCEPT ![r] = Ret(<<>>, ErrSmallBlock)]
  /\ pc' = [pc EXCEPT ![r] = ReturnTo(r)]
  /\ UNCHANGED <<api, f, size, blockSize, state, currentPosition, hist>>

\* the shrink that leaves both accumulators as the rejected pass left them
ShrunkKeepsHashes(s) ==
  [s EXCEPT !.blockSize = I64Div2(s.blockSize),
            !.hashString1 = <<>>, !.hashString2 = <<>>]

\* the pass after a pass that gave fewer than spamSumLength/2 characters
Shrunk(s) ==
  [s EXCEPT !.blockSize = I64Div2(s.blockSize),
            !.blockHash1 = hashInit, !.blockHash2 = hashInit,
            !.hashString1 = <<>>, !.hashString2 = <<>>]

\* if len(state.hashString1) < spamSumLength/2 { ... } and the loop repeats
FuzzyReaderShrink(r) ==
  /\ pc[r] = "check"
  /\ ~TooSmallBlock(state[r])
  /\ Len(state[r].hashString1) < spamSumLength \div 2
  /\ state' = [state EXCEPT ![r] = Shrunk(state[r])]
  /\ pc' = [pc EXCEPT ![r] = "seek"]
  /\ UNCHANGED <<api, f, size, blockSize, ret, currentPosition, hist>>

\* the else branch: the remaining data closes both strings
Finalized(s) ==
  IF rollSum(s.rollingState) # U32(0)
  THEN [s EXCEPT !.hashString1 = Append(@, B64Char(s.blockHash1)),
                 !.hashString2 = Append(@, B64Char(s.blockHash2))]
  ELSE s

\* else { ...; break } return fmt.Sprintf(...), nil
FuzzyReaderFinish(r) ==
  LET s == Finalized(state[r]) IN
  /\ pc[r] = "check"
  /\ ~TooSmallBlock(state[r])
  /\ ~(Len(state[r].hashString1) < spamSumLength \div 2)
  /\ state' = [state EXCEPT ![r] = s]
  /\ ret' = [ret EXCEPT ![r] =
       Ret(Sprintf(s.blockSize, s.hashString1, s.hashString2), "nil")]
  /\ pc' = [pc EXCEPT ![r] = ReturnTo(r)]
  /\ UNCHANGED <<api, f, size, blockSize, currentPosition, hist>>

\* ------------------------------------------------------------------------
\* FuzzyBytes (src/ssdeep.go:206-216)
\* ------------------------------------------------------------------------
\* n := len(buffer); br := bytes.NewReader(buffer); FuzzyReader(br, int64(n))
FuzzyBytesCall(r) ==
  /\ pc[r] = "FuzzyBytes"
  /\ f' = [f EXCEPT ![r].pos = 0]
  /\ size' = [size EXCEPT ![r] = I64(f[r].len)]
  /\ pc' = [pc EXCEPT ![r] = "FuzzyReader"]
  /\ UNCHANGED <<api, blockSize, state, ret, currentPosition, hist>>

\* if err != nil { return "", err }; return result, nil
FuzzyBytesReturn(r) ==
  /\ pc[r] = "returned"
  /\ api[r] = "FuzzyBytes"
  /\ ret' = [ret EXCEPT ![r] =
       IF @.err # "nil" THEN Ret(<<>>, @.err) ELSE Ret(@.result, "nil")]
  /\ pc' = [pc EXCEPT ![r] = "done"]
  /\ UNCHANGED <<api, f, size, blockSize, state, currentPosition, hist>>

\* ------------------------------------------------------------------------
\* FuzzyFile (src/ssdeep.go:182-201)
\* ------------------------------------------------------------------------
\* currentPosition, err := f.Seek(0, io.SeekCurrent) fails: return "", err
FuzzyFileSeekError(r) ==
  /\ pc[r] = "FuzzyFile"
  /\ f[r].seekErr
  /\ ret' = [ret EXCEPT ![r] = Ret(<<>>, "ESPIPE")]
  /\ pc' = [pc EXCEPT ![r] = "done"]
  /\ UNCHANGED <<api, f, size, blockSize, state, currentPosition, hist>>

\* f.Seek(0, io.SeekStart); stat, err := f.Stat() fails: return "", err
FuzzyFileStatError(r) ==
  /\ pc[r] = "FuzzyFile"
  /\ ~f[r].seekErr
  /\ f[r].statErr
  /\ currentPosition' = [currentPosition EXCEPT ![r] = f[r].pos]
  /\ f' = [f EXCEPT ![r] = Seek(f[r], 0)[1]]
  /\ ret' = [ret EXCEPT ![r] = Ret(<<>>, "EBADF")]
  /\ pc' = [pc EXCEPT ![r] = "done"]
  /\ UNCHANGED <<api, size, blockSize, state, hist>>

\* the position is saved, the file rewound, FuzzyReader(f, stat.Size())
FuzzyFileCall(r) ==
  /\ pc[r] = "FuzzyFile"
  /\ ~f[r].seekErr
  /\ ~f[r].statErr
  /\ currentPosition' = [currentPosition EXCEPT ![r] = f[r].pos]
  /\ f' = [f EXCEPT ![r] = Seek(f[r], 0)[1]]
  /\ size' = [size EXCEPT ![r] = I64(f[r].len)]
  /\ pc' = [pc EXCEPT ![r] = "FuzzyReader"]
  /\ UNCHANGED <<api, blockSize, state, ret, hist>>

\* FuzzyFile returning without the final f.Seek
FileLeftAtEnd(file, rt, position) == file

\* FuzzyFile after FuzzyReader: on an error the position is left where it
\* is, otherwise f.Seek(currentPosition, io.SeekStart)
FileReturned(file, rt, position) ==
  IF rt.err # "nil" THEN file ELSE Seek(file, position)[1]

\* if err != nil { return "", err }; f.Seek(...); return result, nil
FuzzyFileReturn(r) ==
  /\ pc[r] = "returned"
  /\ api[r] = "FuzzyFile"
  /\ f' = [f EXCEPT ![r] = FileReturned(f[r], ret[r], currentPosition[r])]
  /\ ret' = [ret EXCEPT ![r] =
       IF @.err # "nil" THEN Ret(<<>>, @.err) ELSE Ret(@.result, "nil")]
  /\ pc' = [pc EXCEPT ![r] = "done"]
  /\ UNCHANGED <<api, size, blockSize, state, currentPosition, hist>>

\* ------------------------------------------------------------------------
\* Calls checked
\* ------------------------------------------------------------------------
\* the longest period of a source's byte pattern
MaxPeriod == 2
\* the length of a short source, and the offset at which a failing one fails
ShortLen == 40
\* the length of a long source
MaxLen == 134
\* a read position other than the start, left by an earlier use of a source
StartPos == 5

ByteVals == {0, 65, 67}
Patterns == UNION {[1..k -> ByteVals] : k \in 1..MaxPeriod}

\* declared sizes: around the minimum, around a doubling of the block size,
\* 2^40, 3*2^61, 3*2^61 + 1, and the least and greatest int64
Sizes ==
  { I64(-1), I64(0), I64(minFileSize - 1), I64(minFileSize),
    I64(minFileSize + 1), I64(96 * spamSumLength), I64(96 * spamSumLength + 1),
    <<0, 0, 256, 0>>, <<0, 0, 0, 24576>>, <<1, 0, 0, 24576>>,
    <<0, 0, 0, 32768>>, <<65535, 65535, 65535, 32767>> }

Call(a, src, sz) == [api |-> a, f |-> src, size |-> sz]

\* FuzzyReader over a caller's Reader whose length need not be the size
ReaderCall(pat, len, pos, failAt, seekErr, sz) ==
  Call("FuzzyReader", Source("reader", pat, len, pos, failAt, seekErr, FALSE), sz)

ReaderCalls ==
       { ReaderCall(<<65>>, ShortLen, 0, -1, FALSE, sz) : sz \in Sizes }
  \cup { ReaderCall(p, n, 0, -1, FALSE, I64(minFileSize)) :
           p \in Patterns, n \in {0, ShortLen, MaxLen} }
  \cup { ReaderCall(p, ShortLen, StartPos, -1, FALSE, I64(minFileSize)) :
           p \in Patterns }
  \cup { ReaderCall(p, MaxLen, 0, ShortLen, FALSE, I64(minFileSize)) :
           p \in Patterns }
  \cup { ReaderCall(p, ShortLen, q, -1, TRUE, I64(minFileSize)) :
           p \in Patterns, q \in {0, StartPos} }

\* FuzzyBytes over a buffer, FuzzyFile over a file, of 4095 or 4096 bytes
BytesCall(pat, len) ==
  Call("FuzzyBytes", Source("bytes", pat, len, 0, -1, FALSE, FALSE), I64Zero)

FileCall(pat, len, pos, seekErr, statErr) ==
  Call("FuzzyFile", Source("file", pat, len, pos, -1, seekErr, statErr), I64Zero)

WrapperCalls ==
       { BytesCall(<<b>>, n) : b \in {0, 65}, n \in {minFileSize - 1, minFileSize} }
  \cup { FileCall(<<0, 161>>, minFileSize, q, FALSE, FALSE) :
           q \in {0, StartPos, minFileSize} }
  \cup { FileCall(<<0>>, minFileSize - 1, StartPos, FALSE, FALSE),
         FileCall(<<65>>, minFileSize, StartPos, TRUE, FALSE),
         FileCall(<<65>>, minFileSize, StartPos, FALSE, TRUE) }

\* two calls of FuzzyReader over the same bytes with the same size, through
\* two Readers that differ in the position they were left at
PairCalls ==
       { << ReaderCall(p, MaxLen, 0, -1, FALSE, sz),
            ReaderCall(p, MaxLen, StartPos, -1, FALSE, sz) >> :
           p \in {<<0, 67>>}, sz \in {I64(minFileSize - 1), I64(minFileSize)} }
  \cup { << ReaderCall(<<0>>, 0, 0, -1, FALSE, I64(minFileSize)),
            ReaderCall(<<0>>, 0, 0, -1, FALSE, I64(minFileSize)) >> }

\* the state in which the calls cs are about to start
Started(cs) ==
  /\ api = [r \in DOMAIN cs |-> cs[r].api]
  /\ pc = [r \in DOMAIN cs |-> cs[r].api]
  /\ f = [r \in DOMAIN cs |-> cs[r].f]
  /\ size = [r \in DOMAIN cs |-> cs[r].size]
  /\ blockSize = [r \in DOMAIN cs |-> I64Zero]
  /\ state = [r \in DOMAIN cs |-> ZeroState]
  /\ ret = [r \in DOMAIN cs |-> Ret(<<>>, "nil")]
  /\ currentPosition = [r \in DOMAIN cs |-> 0]
  /\ hist = [r \in DOMAIN cs |->
       [pos0 |-> cs[r].f.pos, seeks |-> 0, reads |-> 0, ioErr |-> "nil",
        passes |-> <<>>]]

\* one call of FuzzyReader
Init == \E c \in ReaderCalls : Started(<<c>>)
Next ==
  \/ \E r \in Runs : FuzzyReaderSmallInput(r)
  \/ \E r \in Runs : FuzzyReaderStart(r)
  \/ \E r \in Runs : getBlockSizeLoop(r)
  \/ \E r \in Runs : getBlockSizeExit(r)
  \/ \E r \in Runs : FuzzyReaderRewind(r)
  \/ \E r \in Runs : processRead(r)
  \/ \E r \in Runs : processExit(r)
  \/ \E r \in Runs : FuzzyReaderSmallBlock(r)
  \/ \E r \in Runs : FuzzyReaderShrink(r)
  \/ \E r \in Runs : FuzzyReaderFinish(r)
Spec == Init /\ [][Next]_vars

\* one call of FuzzyBytes or FuzzyFile
InitFull == \E c \in WrapperCalls : Started(<<c>>)
NextFull ==
  \/ \E r \in Runs : FuzzyReaderSmallInput(r)
  \/ \E r \in Runs : FuzzyReaderStart(r)
  \/ \E r \in Runs : getBlockSizeLoop(r)
  \/ \E r \in Runs : getBlockSizeExit(r)
  \/ \E r \in Runs : FuzzyReaderRewind(r)
  \/ \E r \in Runs : processRead(r)
  \/ \E r \in Runs : processExit(r)
  \/ \E r \in Runs : FuzzyReaderSmallBlock(r)
  \/ \E r \in Runs : FuzzyReaderShrink(r)
  \/ \E r \in Runs : FuzzyReaderFinish(r)
  \/ \E r \in Runs : FuzzyBytesCall(r)
  \/ \E r \in Runs : FuzzyBytesReturn(r)
  \/ \E r \in Runs : FuzzyFileSeekError(r)
  \/ \E r \in Runs : FuzzyFileStatError(r)
  \/ \E r \in Runs : FuzzyFileCall(r)
  \/ \E r \in Runs : FuzzyFileReturn(r)
SpecFull == InitFull /\ [][NextFull]_vars

\* two calls of FuzzyReader side by side, their steps interleaved
InitPair == \E cs \in PairCalls : Started(cs)
SpecPair == InitPair /\ [][Next]_vars

\* ------------------------------------------------------------------------
\* Reading values and results back
\* ------------------------------------------------------------------------
\* the int64 sz is below 4096: negative, or its three high words are zero
\* and its low word is below 4096
Below4096(sz) ==
  \/ sz[4] >= 32768
  \/ sz[4] = 0 /\ sz[3] = 0 /\ sz[2] = 0 /\ sz[1] < 4096

\* 3 * 2^j as a 64-bit pattern, for 0 <= j <= 62
ThreeShl(j) ==
  LET q == j \div 16
      v == 3 * (2 ^ (j % 16))
  IN  [i \in 1..4 |-> IF i = q + 1 THEN v % (2 ^ 16)
                      ELSE IF i = q + 2 THEN v \div (2 ^ 16) ELSE 0]

\* the least k with 3 * 2^k * 64 >= n, for an int64 n > 0
LeastK(n) ==
  CHOOSE k \in 0..56 :
    /\ ~U64Less(ThreeShl(k + 6), n)
    /\ \A j \in 0..(k - 1) : U64Less(ThreeShl(j + 6), n)

DigitChars == <<"0","1","2","3","4","5","6","7","8","9">>
Alphabet ==
  { "A","B","C","D","E","F","G","H","I","J","K","L","M","N","O","P","Q","R",
    "S","T","U","V","W","X","Y","Z","a","b","c","d","e","f","g","h","i","j",
    "k","l","m","n","o","p","q","r","s","t","u","v","w","x","y","z","0","1",
    "2","3","4","5","6","7","8","9","+","/" }

\* the three fields of a result "<blockSize>:<coarse>:<fine>"
Colons(s) == {i \in 1..Len(s) : s[i] = ":"}
FirstColon(s) == CHOOSE i \in Colons(s) : \A j \in Colons(s) : i <= j
LastColon(s) == CHOOSE i \in Colons(s) : \A j \in Colons(s) : j <= i
BlockSizeField(s) == SubSeq(s, 1, FirstColon(s) - 1)
CoarseField(s) == SubSeq(s, FirstColon(s) + 1, LastColon(s) - 1)
FineField(s) == SubSeq(s, LastColon(s) + 1, Len(s))

\* s matches ^\d+:[A-Za-z0-9+/]{0,64}:[A-Za-z0-9+/]{0,32}$
WellFormed(s) ==
  /\ Cardinality(Colons(s)) = 2
  /\ Len(BlockSizeField(s)) >= 1
  /\ \A i \in 1..Len(BlockSizeField(s)) :
       \E d \in 1..10 : BlockSizeField(s)[i] = DigitChars[d]
  /\ Len(CoarseField(s)) <= 64
  /\ Len(FineField(s)) <= 32
  /\ \A i \in 1..Len(CoarseField(s)) : CoarseField(s)[i] \in Alphabet
  /\ \A i \in 1..Len(FineField(s)) : FineField(s)[i] \in Alphabet

\* the number a string of decimal digits denotes, as a 64-bit pattern
RECURSIVE DecimalValue(_)
DecimalValue(s) ==
  IF s = <<>> THEN <<0, 0, 0, 0>>
  ELSE LET d == CHOOSE x \in 0..9 : DigitChars[x + 1] = s[Len(s)]
       IN  I64Add(I64MulSmall(DecimalValue(SubSeq(s, 1, Len(s) - 1)), 10),
                  <<d, 0, 0, 0>>)

Done(r) == pc[r] = "done"
Digest(r) == Done(r) /\ ret[r].err = "nil"

\* ------------------------------------------------------------------------
\* Claims
\* ------------------------------------------------------------------------

\* C1: FuzzyReader called with size < 4096 returns ErrSmallInput and an
\* empty string at once, having neither sought nor read the source; called
\* with size >= 4096 it never returns ErrSmallInput.
C1_SmallInputGate ==
  \A r \in Runs :
    pc[r] # "FuzzyReader" =>
      IF Below4096(size[r])
      THEN /\ Done(r)
           /\ ret[r] = Ret(<<>>, ErrSmallInput)
           /\ hist[r].seeks = 0
           /\ hist[r].reads = 0
           /\ f[r].pos = hist[r].pos0
      ELSE ret[r].err # ErrSmallInput

\* a call with size 4095 has returned ErrSmallInput
C1_Witness ==
  \E r \in Runs :
    /\ Done(r)
    /\ size[r] = <<4095, 0, 0, 0>>
    /\ ret[r].err = ErrSmallInput

\* the buffer of C2: 4096 zero bytes handed to FuzzyBytes
ZeroBuffer(r) ==
  api[r] = "FuzzyBytes" /\ f[r].pat = <<0>> /\ f[r].len = 4096

\* C2 as stated: for 4096 zero bytes the computation returns no error and a
\* digest whose block size is 3.
C2_ZeroBufferSucceeds ==
  \A r \in Runs :
    ZeroBuffer(r) /\ Done(r) =>
      ret[r].err = "nil" /\ BlockSizeField(ret[r].result) = <<"3">>

\* C2 as amended: for 4096 zero bytes the size gate passes, no pass at a
\* block size from 96 down to 3 appends a character to the coarse string,
\* and the call returns ErrSmallBlock and an empty string.
C2_ZeroBufferSmallBlock ==
  \A r \in Runs :
    ZeroBuffer(r) =>
      /\ ret[r].err # ErrSmallInput
      /\ \A i \in 1..Len(hist[r].passes) :
           ~U64Less(hist[r].passes[i].blockSize, <<3, 0, 0, 0>>) =>
             hist[r].passes[i].len1 = 0
      /\ Done(r) => ret[r] = Ret(<<>>, ErrSmallBlock)

\* the call on 4096 zero bytes has returned, after its passes at 96, 48, 24,
\* 12, 6, 3 and 1
C2_Witness ==
  \E r \in Runs :
    ZeroBuffer(r) /\ Done(r) /\ Len(hist[r].passes) = 7

\* C3: once the source has reported a failure (a Read error other than
\* io.EOF, or a failed Seek), FuzzyReader returns that error and no digest.
C3_ErrorPropagated ==
  \A r \in Runs :
    Done(r) /\ hist[r].ioErr # "nil" => ret[r] = Ret(<<>>, hist[r].ioErr)

\* C4: every successful result is "<blockSize>:<coarse>:<fine>" with a
\* decimal block size, at most 64 coarse and 32 fine characters, all of
\* them from the 64-character alphabet.
C4_Format ==
  \A r \in Runs : Digest(r) => WellFormed(ret[r].result)

\* a digest whose coarse string has 64 characters and whose fine string 32
C4_Witness ==
  \E r \in Runs :
    /\ Digest(r)
    /\ Len(CoarseField(ret[r].result)) = 64
    /\ Len(FineField(ret[r].result)) = 32

\* C5: a call with size >= 4096 ends after a bounded number of steps:
\* getBlockSize leaves its loop within the 56 doublings that suffice for any
\* int64, the passes are bounded in number and each has a strictly smaller
\* block size than the one before; and the call returns ErrSmallBlock (with
\* no digest) exactly when no pass at a block size >= 3 ended with a coarse
\* string of at least 32 characters, a well-formed digest otherwise.
C5_BoundedShrinkLoop ==
  \A r \in Runs :
    ~Below4096(size[r]) =>
      /\ pc[r] = "getBlockSize" => \E k \in 0..56 : blockSize[r] = ThreeShl(k)
      /\ Len(hist[r].passes) <= 58
      /\ \A i \in 2..Len(hist[r].passes) :
           I64Less(hist[r].passes[i].blockSize, hist[r].passes[i - 1].blockSize)
      /\ Done(r) =>
           /\ ret[r].err = ErrSmallBlock <=>
                \A i \in 1..Len(hist[r].passes) :
                  ~I64Less(hist[r].passes[i].blockSize, <<3, 0, 0, 0>>) =>
                    hist[r].passes[i].len1 < 32
           /\ ret[r].err = ErrSmallBlock => ret[r].result = <<>>
           /\ ret[r].err # ErrSmallBlock => WellFormed(ret[r].result)

\* C6: for n >= 4096 getBlockSize(n) returns the least 3 * 2^k with
\* 3 * 2^k * 64 >= n: its loop never holds a value past that one, and the
\* first pass runs with exactly that one.
C6_InitialBlockSize ==
  \A r \in Runs :
    ~Below4096(size[r]) =>
      /\ pc[r] = "getBlockSize" =>
           \E k \in 0..LeastK(size[r]) : blockSize[r] = ThreeShl(k)
      /\ pc[r] \in {"seek", "process"} /\ hist[r].passes = <<>> =>
           state[r].blockSize = ThreeShl(LeastK(size[r]))

\* the buffer of C7: 4096 bytes 0x41 handed to FuzzyBytes
ABuffer(r) ==
  api[r] = "FuzzyBytes" /\ f[r].pat = <<65>> /\ f[r].len = 4096

\* the digest of 4096 bytes 0x41: 3:Wtt, sixty k, w:Yu
GoldenA ==
  <<"3", ":", "W", "t", "t">> \o [i \in 1..60 |-> "k"] \o <<"w", ":", "Y", "u">>

\* C7: for 4096 bytes 0x41 FuzzyBytes returns no error and, on every run,
\* the one digest 3:Wttk...kw:Yu.
C7_GoldenDigest ==
  \A r \in Runs : ABuffer(r) /\ Done(r) => ret[r] = Ret(GoldenA, "nil")

\* FuzzyBytes has returned for the buffer of 4096 bytes 0x41
C7_Witness ==
  \E r \in Runs : ABuffer(r) /\ Done(r) /\ Len(hist[r].passes) = 6

\* C8: two calls over sources that yield the same bytes, with the same
\* size, return the same (string, error), however their steps interleave
\* and wherever each source's read position was left.
C8_SameResult ==
  \A r1, r2 \in Runs :
    /\ Done(r1) /\ Done(r2)
    /\ f[r1].pat = f[r2].pat /\ f[r1].len = f[r2].len
    /\ f[r1].failAt = -1 /\ f[r2].failAt = -1
    /\ size[r1] = size[r2]
    => ret[r1] = ret[r2]

\* two calls through sources left at different positions have both returned
\* a digest
C8_Witness ==
  \E r1, r2 \in Runs :
    /\ Digest(r1) /\ Digest(r2)
    /\ hist[r1].pos0 # hist[r2].pos0

\* C9: the block size b of a returned digest is 3 * 2^k for some k >= 0 (so
\* b >= 3) and is the initial block size divided by a power of two.
C9_DigestBlockSize ==
  \A r \in Runs :
    Digest(r) =>
      \E k0 \in 0..56 :
        /\ blockSize[r] = ThreeShl(k0)
        /\ \E k \in 0..k0 :
             DecimalValue(BlockSizeField(ret[r].result)) = ThreeShl(k)

\* a digest of block size 3 returned by a call that started at 3 * 2^55
C9_Witness ==
  \E r \in Runs :
    /\ Digest(r)
    /\ blockSize[r] = ThreeShl(55)
    /\ BlockSizeField(ret[r].result) = <<"3">>

\* C10: when FuzzyFile returns a digest, the file's read position is the
\* one it had when FuzzyFile was called.
C10_PositionRestored ==
  \A r \in Runs :
    api[r] = "FuzzyFile" /\ Digest(r) => f[r].pos = hist[r].pos0

\* FuzzyFile has returned a digest after two passes over a file that was
\* not at its start
C10_Witness ==
  \E r \in Runs :
    /\ api[r] = "FuzzyFile" /\ Digest(r)
    /\ hist[r].pos0 = StartPos
    /\ Len(hist[r].passes) = 2

\* C11: while a pass is prepared, scanned or judged, the block size of the
\* state is strictly positive and is 3 * 2^k for some k >= 0, and no pass
\* over the input is scanned with a block size below 3.
C11_BlockSizeShape ==
  \A r \in Runs :
    /\ pc[r] \in {"seek", "process", "check"} =>
         \E k \in 0..56 : state[r].blockSize = ThreeShl(k)
    /\ \A i \in 1..Len(hist[r].passes) :
         ~I64Less(hist[r].passes[i].blockSize, <<3, 0, 0, 0>>)

\* r handles one byte in this step: process reads it and calls processByte
ByteHandled(r) ==
  /\ pc[r] = "process"
  /\ pc'[r] = "process"
  /\ f'[r].pos = f[r].pos + 1

\* the rolling checksum rh read from the state s
Checksum(s) == I64FromU32(rollSum(s.rollingState))

\* rh mod blockSize = blockSize - 1, and the same for twice the block size
CoarseHolds(s) ==
  I64Mod(Checksum(s), s.blockSize) = I64Sub(s.blockSize, <<1, 0, 0, 0>>)
FineHolds(s) ==
  I64Mod(Checksum(s), I64Add(s.blockSize, s.blockSize)) =
    I64Sub(I64Add(s.blockSize, s.blockSize), <<1, 0, 0, 0>>)

\* C12 as stated: after processByte handles a byte on which the coarse
\* condition holds, blockHash1 is the seed, and after a byte on which the
\* fine condition holds, blockHash2 is the seed.
C12_ResetOnTrigger ==
  [][\A r \in Runs :
       ByteHandled(r) =>
         /\ CoarseHolds(state'[r]) => state'[r].blockHash1 = <<6503, 10242>>
         /\ FineHolds(state'[r]) => state'[r].blockHash2 = <<6503, 10242>>]_vars

\* C12 as amended: after processByte handles a byte, blockHash1 is the seed
\* if the coarse condition holds on it and the coarse string had fewer than
\* 63 characters, and blockHash2 is the seed if the fine condition holds on
\* it and the fine string had fewer than 31; in every other case, a trigger
\* at the cap included, the accumulator has absorbed the byte and is not
\* reset.
C12_ResetBelowCap ==
  [][\A r \in Runs :
       ByteHandled(r) =>
         LET b == ByteAt(f[r], f[r].pos)
             s == state[r]
             t == state'[r]
         IN  /\ t.blockHash1 =
                  IF CoarseHolds(t) /\ Len(s.hashString1) < 63
                  THEN <<6503, 10242>> ELSE sumHash(b, s.blockHash1)
             /\ t.blockHash2 =
                  IF FineHolds(t) /\ Len(s.hashString2) < 31
                  THEN <<6503, 10242>> ELSE sumHash(b, s.blockHash2)]_vars

\* a byte has just met both conditions with the fine string at its cap of 31
\* and the coarse string below its cap: blockHash1 was reset, blockHash2 not
C12_Witness ==
  \E r \in Runs :
    /\ pc[r] = "process"
    /\ f[r].pos > 0
    /\ CoarseHolds(state[r])
    /\ FineHolds(state[r])
    /\ Len(state[r].hashString1) < 63
    /\ Len(state[r].hashString2) = 31
    /\ state[r].blockHash1 = <<6503, 10242>>
    /\ state[r].blockHash2 # <<6503, 10242>>

\* r leaves the check that follows a pass in this step
PassJudged(r) == pc[r] = "check" /\ pc'[r] # "check"

\* the character appended for the accumulator h: alphabet[h mod 64]
FinalChar(h) == b64[(h[1] % 64) + 1]

\* C13: a pass is accepted (the call goes on to return a digest) exactly
\* when the coarse string has at least 32 characters at its end; on
\* acceptance one character alphabet[accumulator mod 64] is appended to each
\* string if the final rolling checksum is not zero and nothing if it is
\* zero; the coarse string of a returned digest has 32 to 64 characters.
C13_Acceptance ==
  [][\A r \in Runs :
       PassJudged(r) =>
         LET s == state[r]
             t == state'[r]
             accepted == pc'[r] \in {"returned", "done"} /\ ret'[r].err = "nil"
         IN  /\ accepted <=> Len(s.hashString1) >= 32
             /\ accepted =>
                  /\ IF rollSum(s.rollingState) # <<0, 0>>
                     THEN /\ t.hashString1 =
                               Append(s.hashString1, FinalChar(s.blockHash1))
                          /\ t.hashString2 =
                               Append(s.hashString2, FinalChar(s.blockHash2))
                     ELSE /\ t.hashString1 = s.hashString1
                          /\ t.hashString2 = s.hashString2
                  /\ CoarseField(ret'[r].result) = t.hashString1
                  /\ FineField(ret'[r].result) = t.hashString2
                  /\ Len(CoarseField(ret'[r].result)) \in 32..64]_vars

\* one pass of process over what the source src still yields, from state s;
\* each byte's state is computed before the next byte is read, and
\* processByte leaves the block size alone
RECURSIVE PassOver(_, _)
PassOver(s, src) ==
  LET rd == ReadByte(src)
      t  == processByte(s, rd.b)
  IN  IF rd.err # "nil" \/ t.blockSize # s.blockSize THEN s
      ELSE PassOver(t, [src EXCEPT !.pos = @ + 1])

\* the source as the last pass of the returned call r found it: where the
\* caller left it if that was the only pass, where the pass before ended
\* otherwise
BeforeLastPass(r) ==
  IF Len(hist[r].passes) = 1 THEN [f[r] EXCEPT !.pos = hist[r].pos0] ELSE f[r]

\* the digest of a single pass over the same source, started from a fresh
\* state with the block size bs
SinglePassDigest(r, bs) ==
  LET s == Finalized(PassOver([newSsdeepState EXCEPT !.blockSize = bs],
                              Seek(BeforeLastPass(r), 0)[1]))
  IN  Sprintf(s.blockSize, s.hashString1, s.hashString2)

\* C14: every pass starts with the rolling window and h1, h2, h3 all zero,
\* both accumulators at the seed and both strings empty, and a digest
\* returned after any number of shrinks is the digest a single pass from a
\* fresh state with the final block size gives on the same input.
C14_FreshPasses ==
  [][\A r \in Runs :
       /\ pc[r] = "seek" /\ pc'[r] = "process" =>
            /\ state'[r].rollingState.window = <<0, 0, 0, 0, 0, 0, 0>>
            /\ state'[r].rollingState.h1 = <<0, 0>>
            /\ state'[r].rollingState.h2 = <<0, 0>>
            /\ state'[r].rollingState.h3 = <<0, 0>>
            /\ state'[r].blockHash1 = <<6503, 10242>>
            /\ state'[r].blockHash2 = <<6503, 10242>>
            /\ state'[r].hashString1 = <<>>
            /\ state'[r].hashString2 = <<>>
       /\ pc[r] = "check" /\ pc'[r] = "done" /\ ret'[r].err = "nil" =>
            ret'[r].result = SinglePassDigest(r, state[r].blockSize)]_vars

\* a digest returned after at least two shrinks, equal to the digest of a
\* single pass at its block size
C14_Witness ==
  \E r \in Runs :
    /\ Digest(r)
    /\ Len(hist[r].passes) >= 3
    /\ ret[r].result = SinglePassDigest(r, state[r].blockSize)

\* the sum of the bytes held in the window w
WindowSum(w) == w[1] + w[2] + w[3] + w[4] + w[5] + w[6] + w[7]

\* C15: from the start of the first pass on, and so after every push of a
\* byte, h1 is the sum of the 7 bytes held in the window.
C15_H1IsWindowSum ==
  \A r \in Runs :
    pc[r] \in {"process", "check", "returned", "done"}
      /\ ret[r].err # ErrSmallInput =>
        /\ Len(state[r].rollingState.window) = 7
        /\ state[r].rollingState.h1 =
             <<WindowSum(state[r].rollingState.window), 0>>

\* in a pass after the first, more than 7 bytes have been pushed and the
\* window holds 7 bytes that are not all equal: every slot was overwritten
C15_Witness ==
  \E r \in Runs :
    /\ pc[r] = "process"
    /\ Len(hist[r].passes) >= 1
    /\ ~f[r].seekErr
    /\ f[r].pos > 7
    /\ \E i, j \in 1..7 :
         /\ state[r].rollingState.window[i] = 65
         /\ state[r].rollingState.window[j] = 67
    /\ state[r].rollingState.h1 =
         <<WindowSum(state[r].rollingState.window), 0>>

PassesBefore(r) ==
  IF pc[r] = "check" THEN Len(hist[r].passes) - 1 ELSE Len(hist[r].passes)

\* the number of bytes pushed so far in the current pass of r: the pass
\* began where Seek(0, 0) put the source, which for a source whose Seek
\* fails is where the caller or the pass before left it
Pushed(r) ==
  IF ~f[r].seekErr THEN f[r].pos
  ELSE IF PassesBefore(r) = 0 THEN f[r].pos - hist[r].pos0
  ELSE 0

\* the last 7 bytes pushed in the current pass, the latest last, with zeros
\* for the bytes before the start of the pass
Last7(r) ==
  [i \in 1..7 |->
     IF 7 - i < Pushed(r) THEN ByteAt(f[r], f[r].pos - 8 + i) ELSE 0]

\* a << 5k in 32 bits
RECURSIVE ShlFives(_, _)
ShlFives(a, k) ==
  IF k = 0 THEN a
  ELSE LET p == a[1] * 32
       IN  ShlFives(<<p % 65536, (a[2] * 32 + (p \div 65536)) % 65536>>, k - 1)

\* h1 + h2 + h3 as a function of 7 bytes w, the latest last: h1 is their
\* sum, h2 their sum weighted 1..7, h3 the xor of w[i] << 5(7 - i)
RECURSIVE XorOfShifted(_, _)
XorOfShifted(w, i) ==
  IF i = 0 THEN <<0, 0>>
  ELSE U32Xor(XorOfShifted(w, i - 1), ShlFives(<<w[i], 0>>, 7 - i))

ChecksumOf(w) ==
  LET s1 == WindowSum(w)
      s2 == w[1] + 2 * w[2] + 3 * w[3] + 4 * w[4] + 5 * w[5] + 6 * w[6]
              + 7 * w[7]
  IN  U32Add(U32Add(<<s1, 0>>, <<s2, 0>>), XorOfShifted(w, 7))

\* C17: the checksum h1 + h2 + h3 read after a push is a function of the
\* last 7 bytes pushed in the current pass alone (bytes before the start of
\* the pass counting as zero), whatever was pushed before them, and so is the
\* trigger decision taken on it.
C17_ChecksumOfLast7 ==
  \A r \in Runs :
    pc[r] \in {"process", "check"} =>
      /\ rollSum(state[r].rollingState) = ChecksumOf(Last7(r))
      /\ CoarseHolds(state[r]) <=>
           I64Mod(I64FromU32(ChecksumOf(Last7(r))), state[r].blockSize)
             = I64Sub(state[r].blockSize, <<1, 0, 0, 0>>)

\* in a pass after the first, more than 7 bytes have been pushed, the byte
\* pushed 8 pushes ago was not zero, and the checksum is that of the last 7
C17_Witness ==
  \E r \in Runs :
    /\ pc[r] = "process"
    /\ Len(hist[r].passes) >= 1
    /\ Pushed(r) > 7
    /\ ByteAt(f[r], f[r].pos - 8) # 0
    /\ rollSum(state[r].rollingState) # <<0, 0>>
    /\ rollSum(state[r].rollingState) = ChecksumOf(Last7(r))

====
